---- MODULE Spec2Model ----
(***************************************************************************)
(* The Ethereum JSON-RPC facade of smartbch (rpc/api/eth_api.go) and the   *)
(* cached runtime statistics reporter (rpc/api/debug_api.go).              *)
(*                                                                         *)
(* Go values are encoded as follows.  A pointer or an error is a tuple:    *)
(* <<>> is nil, <<v>> is a pointer to v, and an error is a non-empty tuple *)
(* whose first element is its message.  Go slices are 0-indexed, TLA+      *)
(* sequences 1-indexed: element i of a slice is s[i + 1].                  *)
(***************************************************************************)
EXTENDS Integers, Sequences, FiniteSets

VARIABLES
    accounts,        \* ethAPI.accounts: address -> private key
    blocks,          \* backend: the chain, blocks[h] is the block of height h
    txs,             \* backend: the mined transactions, in chain order
    pool,            \* backend: the submitted, not yet mined transactions
    nonces,          \* backend: address -> next nonce of the account
    last,            \* the request being served: its backend calls so far, and
                     \* its result and error once it is done
    lastUpdateTime,  \* debugAPI.lastUpdateTime
    stats,           \* debugAPI.stats
    clock,           \* time.Now().Unix()
    rt,              \* what the Go runtime reports (goroutines, GC, memory)
    pc,              \* per GetStats caller: its position in GetStats
    loc,             \* per GetStats caller: its local variables
    runs             \* the complete results computed by updateStats runs

ethVars == <<accounts, blocks, txs, pool, nonces, last>>
statsVars == <<lastUpdateTime, stats, clock, rt, pc, loc, runs>>
vars == <<accounts, blocks, txs, pool, nonces, last,
          lastUpdateTime, stats, clock, rt, pc, loc, runs>>

-----------------------------------------------------------------------------
(* Bounds of the model *)

MaxHeight == 2
MaxIdx == 2
MaxKeys == 2
NumCallers == 2
MaxElapsed == 61
StartTime == 1000

-----------------------------------------------------------------------------
(* Program constants *)

\* big.Int amounts exceed the model checker's integers: an amount of wei is
\* giga * 10^9 + unit
BigInt(giga, unit) == [giga |-> giga, unit |-> unit]
\* DefaultGasPrice = 20000000000
DefaultGasPrice == BigInt(20, 0)
DefaultRPCGasLimit == 10000000
LatestBlockNumber == -1
StatusUpdateInterval == 60
MiB == 1048576

-----------------------------------------------------------------------------
(* Go values *)

Nil == <<>>
Ptr(v) == <<v>>
Deref(p) == p[1]

ZeroAddress == 0
Addresses == 0..2
ZeroHash == 0

ErrBackend == <<"backend unavailable">>
ErrBlockNotFound == <<"block not found">>
ErrTxNotFound == <<"transaction not found">>
ErrAccNotFound == <<"account not found">>
ErrInvalidKey == <<"invalid hex string">>
ErrDecode == <<"rlp: decode error">>

\* common.Address.Hex()
Hex(addr) ==
    CASE addr = 0 -> "0x0000000000000000000000000000000000000000"
      [] addr = 1 -> "0x0000000000000000000000000000000000000001"
      [] addr = 2 -> "0x0000000000000000000000000000000000000002"

\* A backend call as the facade saw it: the function, its arguments, and
\* what it returned.
BackendCall(fn, arg, ret, err) == [fn |-> fn, arg |-> arg, ret |-> ret, err |-> err]

\* The outcome of a call into the backend, or of a helper of the facade.
Outcome(val, err, calls) == [val |-> val, err |-> err, calls |-> calls]

\* What an operation answered, with the backend calls it made.
Response(op, args, result, err, calls) ==
    [op |-> op, args |-> args, result |-> result, err |-> err, calls |-> calls,
     done |-> TRUE]

\* A request that has made `calls` and is waiting to make its next call.
InFlight(op, args, calls) ==
    [op |-> op, args |-> args, result |-> Nil, err |-> Nil, calls |-> calls,
     done |-> FALSE]

\* No request is being served.
Idle == InFlight("", <<>>, <<>>)

-----------------------------------------------------------------------------
(* The Signer Registry *)

TestKeys == {"key1", "key2", "zz"}

\* ethutils.HexToPrivKey: "zz" is no hex string
HexToPrivKey(testKey) ==
    CASE testKey = "key1" -> [key |-> 11, err |-> Nil]
      [] testKey = "key2" -> [key |-> 12, err |-> Nil]
      [] OTHER -> [key |-> 0, err |-> ErrInvalidKey]

\* crypto.PubkeyToAddress
PubkeyToAddress(key) == key - 10

RECURSIVE loadTestAccounts(_)
loadTestAccounts(testKeys) ==
    IF testKeys = <<>> THEN <<>>
    ELSE LET n == Len(testKeys)
             accs == loadTestAccounts(SubSeq(testKeys, 1, n - 1))
             r == HexToPrivKey(testKeys[n])
             addr == PubkeyToAddress(r.key)
         IN  IF r.err = Nil
             THEN [a \in DOMAIN accs \cup {addr} |->
                      IF a = addr THEN r.key ELSE accs[a]]
             ELSE accs

TestKeyLists == UNION {[1..n -> TestKeys] : n \in 0..MaxKeys}

-----------------------------------------------------------------------------
(* The backend (sbchapi.BackendService).  `fault` names the function that   *)
(* fails at this step of the request ("" for none).  An operation calls    *)
(* each backend function at most once; a step of a request makes the next  *)
(* backend call, and the calls it made before answer as they did then.     *)

Answered(fn) == \E i \in 1..Len(last.calls) : last.calls[i].fn = fn

Recorded(fn) == last.calls[CHOOSE i \in 1..Len(last.calls) : last.calls[i].fn = fn]

\* r is what the backend returns now: <<value, error>>
Called(fn, arg, r) ==
    IF Answered(fn)
    THEN Outcome(Recorded(fn).ret, Recorded(fn).err, <<Recorded(fn)>>)
    ELSE Outcome(r[1], r[2], <<BackendCall(fn, arg, r[1], r[2])>>)

BlockHash(height) == 200 + height
TxHash(from, nonce) == 100 + 10 * from + nonce

BlockHashes == {BlockHash(h) : h \in 1..(MaxHeight + 1)}
TxHashes == {TxHash(a, n) : a \in 1..2, n \in 0..MaxHeight}

RECURSIVE FindBlockByHash(_, _)
FindBlockByHash(hash, h) ==
    IF h = 0 THEN 0
    ELSE IF blocks[h].Hash = hash THEN h ELSE FindBlockByHash(hash, h - 1)

RECURSIVE FindTx(_, _)
FindTx(hash, i) ==
    IF i = 0 THEN 0
    ELSE IF txs[i].Hash = hash THEN i ELSE FindTx(hash, i - 1)

BackendCurrentBlock(fault) ==
    LET r == IF fault = "CurrentBlock" THEN <<Nil, ErrBackend>>
             ELSE IF blocks = <<>> THEN <<Nil, ErrBlockNotFound>>
             ELSE <<Ptr(blocks[Len(blocks)]), Nil>>
    IN  Called("CurrentBlock", <<>>, r)

BackendBlockByNumber(height, fault) ==
    LET r == IF fault = "BlockByNumber" THEN <<Nil, ErrBackend>>
             ELSE IF height \notin 1..Len(blocks) THEN <<Nil, ErrBlockNotFound>>
             ELSE <<Ptr(blocks[height]), Nil>>
    IN  Called("BlockByNumber", <<height>>, r)

BackendBlockByHash(hash, fault) ==
    LET h == FindBlockByHash(hash, Len(blocks))
        r == IF fault = "BlockByHash" THEN <<Nil, ErrBackend>>
             ELSE IF h = 0 THEN <<Nil, ErrBlockNotFound>>
             ELSE <<Ptr(blocks[h]), Nil>>
    IN  Called("BlockByHash", <<hash>>, r)

BackendGetTransaction(hash, fault) ==
    LET i == FindTx(hash, Len(txs))
        r == IF fault = "GetTransaction" THEN <<Nil, ErrBackend>>
             ELSE IF i = 0 THEN <<Nil, ErrTxNotFound>>
             ELSE <<Ptr(txs[i]), Nil>>
    IN  Called("GetTransaction", <<hash>>, r)

BackendGetTxListByHeight(height, fault) ==
    LET r == IF fault = "GetTxListByHeight" THEN <<Nil, ErrBackend>>
             ELSE <<Ptr(SelectSeq(txs, LAMBDA t : t.BlockNumber = height)), Nil>>
    IN  Called("GetTxListByHeight", <<height>>, r)

BackendGetNonce(addr, fault) ==
    LET r == IF fault = "GetNonce" THEN <<0, ErrBackend>>
             ELSE IF addr = ZeroAddress THEN <<0, ErrAccNotFound>>
             ELSE <<nonces[addr], Nil>>
    IN  Called("GetNonce", <<addr>>, r)

\* the code stored at an address: only address 2 is a contract
BackendGetCode(addr, height, fault) ==
    LET r == IF fault = "GetCode" THEN <<<<>>, ErrBackend>>
             ELSE IF addr = ZeroAddress THEN <<<<>>, ErrAccNotFound>>
             ELSE IF addr = 2 THEN <<<<96, 128>>, Nil>>
             ELSE <<<<>>, Nil>>
    IN  Called("GetCode", <<addr, height>>, r)

BackendChainId == Called("ChainId", <<>>, <<10000, Nil>>)

\* The backend takes a transaction whose nonce is the sender's next nonce
\* and that is not waiting in the pool already.
Acceptable(tx) ==
    /\ tx.From # ZeroAddress
    /\ tx.Nonce = nonces[tx.From]
    /\ \A i \in 1..Len(pool) : pool[i].From # tx.From

BackendSendRawTx(txBytes, fault) ==
    LET tx == txBytes[2]
        r == IF fault = "SendRawTx" THEN <<ZeroHash, ErrBackend>>
             ELSE IF ~Acceptable(tx) THEN <<ZeroHash, <<"tx rejected">>>>
             ELSE <<tx.Hash, Nil>>
    IN  Called("SendRawTx", <<txBytes>>, r)

\* The pool after the backend calls of a request.
RECURSIVE PoolAfter(_, _)
PoolAfter(p, calls) ==
    IF calls = <<>> THEN p
    ELSE LET c == Head(calls)
         IN  PoolAfter(IF c.fn = "SendRawTx" /\ c.err = Nil
                       THEN Append(p, c.arg[1][2]) ELSE p,
                       Tail(calls))

-----------------------------------------------------------------------------
(* Helpers of this package that shape results (rpc/api/utils)              *)

\* blockToRpcResp: the block, with the transaction bodies when txs is given
\* and the transaction hashes otherwise
blockToRpcResp(block, txList) ==
    [number |-> block.Number, hash |-> block.Hash,
     transactions |-> IF txList = Nil THEN block.Transactions ELSE Deref(txList)]

txToRpcResp(tx) ==
    [hash |-> tx.Hash, from |-> tx.From, nonce |-> tx.Nonce,
     blockNumber |-> tx.BlockNumber, transactionIndex |-> tx.Index]

txToReceiptRpcResp(tx) ==
    [transactionHash |-> tx.Hash, blockNumber |-> tx.BlockNumber,
     transactionIndex |-> tx.Index, from |-> tx.From]

\* toCallErr: one error value built from the status code and the return data
toCallErr(statusCode, retData) == <<"execution failed", statusCode, retData>>

\* ebp.StatusIsFailure
StatusIsFailure(statusCode) == statusCode # 0

ErrBuild == <<"invalid transaction arguments">>
ErrSign == <<"signing failed">>
ErrEncode == <<"rlp: encode error">>

\* createGethTxFromSendTxArgs: the unsigned transaction of a SendTxArgs (an
\* absent nonce is 0), or an error
createGethTxFromSendTxArgs(args, fault) ==
    IF fault = "createGethTxFromSendTxArgs"
    THEN [tx |-> Nil, err |-> ErrBuild]
    ELSE [tx |-> [From |-> args.From,
                  Nonce |-> IF args.Nonce = Nil THEN 0 ELSE Deref(args.Nonce)],
          err |-> Nil]

\* the signed transaction: the signature binds the chain id; tx.Hash() is
\* the content hash of the signed transaction
Signed(tx, chainID, privKey) ==
    [From |-> PubkeyToAddress(privKey), Nonce |-> tx.Nonce, ChainId |-> chainID,
     Hash |-> TxHash(PubkeyToAddress(privKey), tx.Nonce)]

\* ethutils.SignTx
SignTx(tx, chainID, privKey, fault) ==
    IF fault = "SignTx"
    THEN [tx |-> Nil, err |-> ErrSign]
    ELSE [tx |-> Signed(tx, chainID, privKey), err |-> Nil]

\* ethutils.EncodeTx
EncodeTx(tx, fault) ==
    IF fault = "EncodeTx"
    THEN [bytes |-> <<>>, err |-> ErrEncode]
    ELSE [bytes |-> <<"rlp", tx>>, err |-> Nil]

\* ethutils.DecodeTx
DecodeTx(data) ==
    IF Len(data) = 2 /\ data[1] = "rlp"
    THEN [tx |-> data[2], err |-> Nil]
    ELSE [tx |-> Nil, err |-> ErrDecode]

-----------------------------------------------------------------------------
(* ethAPI: one operator per operation.  Each yields the Response of the    *)
(* request: the result, the error, and the backend calls it made.          *)

GetCode(addr, blockNum, fault) ==
    LET c == BackendGetCode(addr, LatestBlockNumber, fault)
    IN  Response("GetCode", <<addr, blockNum>>, c.val, Nil, c.calls)

GetTransactionCount(addr, blockNum, fault) ==
    LET c == BackendGetNonce(addr, fault)
    IN  IF c.err # Nil
        THEN Response("GetTransactionCount", <<addr, blockNum>>, Nil, c.err, c.calls)
        ELSE Response("GetTransactionCount", <<addr, blockNum>>, Ptr(c.val), Nil, c.calls)

\* mutant: only the negative markers resolve to the head
getBlockByNum_NegativeOnly(blockNum, fault) ==
    LET height == blockNum
    IN  IF height < 0
        THEN BackendCurrentBlock(fault)
        ELSE BackendBlockByNumber(height, fault)

getBlockByNum(blockNum, fault) ==
    LET height == blockNum
    IN  IF height <= 0
        THEN BackendCurrentBlock(fault)
        ELSE BackendBlockByNumber(height, fault)

\* mutant: the bounds test is off by one
getTxByIdx_OffByOne(block, idx, fault) ==
    IF idx + 1 >= Len(block.Transactions)
    THEN Outcome(Nil, Nil, <<>>)
    ELSE LET txHash == block.Transactions[idx + 1]
             c == BackendGetTransaction(txHash, fault)
         IN  IF c.err # Nil
             THEN Outcome(Nil, c.err, c.calls)
             ELSE Outcome(Ptr(txToRpcResp(Deref(c.val))), Nil, c.calls)

getTxByIdx(block, idx, fault) ==
    IF idx >= Len(block.Transactions)
    THEN Outcome(Nil, Nil, <<>>)
    ELSE LET txHash == block.Transactions[idx + 1]
             c == BackendGetTransaction(txHash, fault)
         IN  IF c.err # Nil
             THEN Outcome(Nil, c.err, c.calls)
             ELSE Outcome(Ptr(txToRpcResp(Deref(c.val))), Nil, c.calls)

\* mutant: a block that is not found is an error, as in the by-index lookups
GetBlockByHash_NotFoundIsError(hash, fullTx, fault) ==
    LET op == "GetBlockByHash"
        args == <<hash, fullTx>>
        b == BackendBlockByHash(hash, fault)
    IN  IF b.err # Nil
        THEN Response(op, args, Nil, b.err, b.calls)
        ELSE LET block == Deref(b.val)
                 t == BackendGetTxListByHeight(block.Number, fault)
             IN  IF fullTx
                 THEN IF t.err # Nil
                      THEN Response(op, args, Nil, t.err, b.calls \o t.calls)
                      ELSE Response(op, args, Ptr(blockToRpcResp(block, t.val)),
                                    Nil, b.calls \o t.calls)
                 ELSE Response(op, args, Ptr(blockToRpcResp(block, Nil)), Nil, b.calls)

GetBlockByHash(hash, fullTx, fault) ==
    LET op == "GetBlockByHash"
        args == <<hash, fullTx>>
        b == BackendBlockByHash(hash, fault)
    IN  IF b.err # Nil
        THEN IF b.err = ErrBlockNotFound
             THEN Response(op, args, Nil, Nil, b.calls)
             ELSE Response(op, args, Nil, b.err, b.calls)
        ELSE LET block == Deref(b.val)
                 t == BackendGetTxListByHeight(block.Number, fault)
             IN  IF fullTx
                 THEN IF t.err # Nil
                      THEN Response(op, args, Nil, t.err, b.calls \o t.calls)
                      ELSE Response(op, args, Ptr(blockToRpcResp(block, t.val)),
                                    Nil, b.calls \o t.calls)
                 ELSE Response(op, args, Ptr(blockToRpcResp(block, Nil)), Nil, b.calls)

GetBlockByNumber(blockNum, fullTx, fault) ==
    LET op == "GetBlockByNumber"
        args == <<blockNum, fullTx>>
        b == getBlockByNum(blockNum, fault)
    IN  IF b.err # Nil
        THEN IF b.err = ErrBlockNotFound
             THEN Response(op, args, Nil, Nil, b.calls)
             ELSE Response(op, args, Nil, b.err, b.calls)
        ELSE LET block == Deref(b.val)
                 t == BackendGetTxListByHeight(block.Number, fault)
             IN  IF fullTx
                 THEN IF t.err # Nil
                      THEN Response(op, args, Nil, t.err, b.calls \o t.calls)
                      ELSE Response(op, args, Ptr(blockToRpcResp(block, t.val)),
                                    Nil, b.calls \o t.calls)
                 ELSE Response(op, args, Ptr(blockToRpcResp(block, Nil)), Nil, b.calls)

GetBlockTransactionCountByHash(hash, fault) ==
    LET b == BackendBlockByHash(hash, fault)
    IN  IF b.err # Nil
        THEN Response("GetBlockTransactionCountByHash", <<hash>>, Nil, Nil, b.calls)
        ELSE Response("GetBlockTransactionCountByHash", <<hash>>,
                      Ptr(Len(Deref(b.val).Transactions)), Nil, b.calls)

GetBlockTransactionCountByNumber(blockNum, fault) ==
    LET b == getBlockByNum(blockNum, fault)
    IN  IF b.err # Nil
        THEN Response("GetBlockTransactionCountByNumber", <<blockNum>>, Nil, Nil, b.calls)
        ELSE Response("GetBlockTransactionCountByNumber", <<blockNum>>,
                      Ptr(Len(Deref(b.val).Transactions)), Nil, b.calls)

GetTransactionByBlockHashAndIndex(hash, idx, fault) ==
    LET op == "GetTransactionByBlockHashAndIndex"
        b == BackendBlockByHash(hash, fault)
    IN  IF b.err # Nil
        THEN Response(op, <<hash, idx>>, Nil, b.err, b.calls)
        ELSE LET t == getTxByIdx(Deref(b.val), idx, fault)
             IN  Response(op, <<hash, idx>>, t.val, t.err, b.calls \o t.calls)

GetTransactionByBlockNumberAndIndex(blockNum, idx, fault) ==
    LET op == "GetTransactionByBlockNumberAndIndex"
        b == getBlockByNum(blockNum, fault)
    IN  IF b.err # Nil
        THEN Response(op, <<blockNum, idx>>, Nil, b.err, b.calls)
        ELSE LET t == getTxByIdx(Deref(b.val), idx, fault)
             IN  Response(op, <<blockNum, idx>>, t.val, t.err, b.calls \o t.calls)

GetTransactionByHash(hash, fault) ==
    LET c == BackendGetTransaction(hash, fault)
    IN  IF c.err # Nil
        THEN Response("GetTransactionByHash", <<hash>>, Nil, Nil, c.calls)
        ELSE Response("GetTransactionByHash", <<hash>>,
                      Ptr(txToRpcResp(Deref(c.val))), Nil, c.calls)

GetTransactionReceipt(hash, fault) ==
    LET c == BackendGetTransaction(hash, fault)
    IN  IF c.err # Nil
        THEN Response("GetTransactionReceipt", <<hash>>, Nil, Nil, c.calls)
        ELSE Response("GetTransactionReceipt", <<hash>>,
                      Ptr(txToReceiptRpcResp(Deref(c.val))), Nil, c.calls)

SendRawTransaction(data, fault) ==
    LET d == DecodeTx(data)
    IN  IF d.err # Nil
        THEN Response("SendRawTransaction", <<data>>, ZeroHash, d.err, <<>>)
        ELSE LET s == BackendSendRawTx(data, fault)
             IN  IF s.err # Nil
                 THEN Response("SendRawTransaction", <<data>>, s.val, s.err, s.calls)
                 ELSE Response("SendRawTransaction", <<data>>, d.tx.Hash, Nil, s.calls)

\* SendTransaction once the sender's key is found: nonce, build, sign,
\* encode, submit
signAndSend(args, privKey, fault) ==
    LET op == "SendTransaction"
        n == IF args.Nonce = Nil
             THEN BackendGetNonce(args.From, fault)
             ELSE Outcome(0, Nil, <<>>)
        args2 == IF args.Nonce = Nil /\ n.err = Nil
                 THEN [args EXCEPT !.Nonce = Ptr(n.val)]
                 ELSE args
        t == createGethTxFromSendTxArgs(args2, fault)
        chainID == BackendChainId
        signed == SignTx(t.tx, chainID.val, privKey, fault)
        e == EncodeTx(signed.tx, fault)
        s == BackendSendRawTx(e.bytes, fault)
    IN  IF t.err # Nil
        THEN Response(op, <<args>>, ZeroHash, t.err, n.calls)
        ELSE IF signed.err # Nil
        THEN Response(op, <<args>>, ZeroHash, signed.err, n.calls \o chainID.calls)
        ELSE IF e.err # Nil
        THEN Response(op, <<args>>, ZeroHash, e.err, n.calls \o chainID.calls)
        ELSE IF s.err # Nil
        THEN Response(op, <<args>>, s.val, s.err,
                      n.calls \o chainID.calls \o s.calls)
        ELSE Response(op, <<args>>, signed.tx.Hash, Nil,
                      n.calls \o chainID.calls \o s.calls)

\* mutant: the nonce is looked up before the sender's key
SendTransaction_NonceBeforeKey(args, fault) ==
    LET n == IF args.Nonce = Nil
             THEN BackendGetNonce(args.From, fault)
             ELSE Outcome(0, Nil, <<>>)
    IN  IF args.From \notin DOMAIN accounts
        THEN Response("SendTransaction", <<args>>, ZeroHash,
                      <<"unknown account: ", Hex(args.From)>>, n.calls)
        ELSE signAndSend(args, accounts[args.From], fault)

SendTransaction(args, fault) ==
    IF args.From \notin DOMAIN accounts
    THEN Response("SendTransaction", <<args>>, ZeroHash,
                  <<"unknown account: ", Hex(args.From)>>, <<>>)
    ELSE signAndSend(args, accounts[args.From], fault)

\* mutant: an absent gas limit stays 0 instead of the default ceiling
createGethTxFromCallArgs_NoGasDefault(args) ==
    LET from == IF args.From # Nil THEN Deref(args.From) ELSE ZeroAddress
        to == IF args.To # Nil THEN Deref(args.To) ELSE ZeroAddress
        val == IF args.Value # Nil THEN Deref(args.Value) ELSE BigInt(0, 0)
        gasLimit == IF args.Gas # Nil THEN Deref(args.Gas) ELSE 0
        gasPrice == IF args.GasPrice # Nil THEN Deref(args.GasPrice)
                    ELSE DefaultGasPrice
        data == IF args.Data # Nil THEN Deref(args.Data) ELSE <<>>
    IN  [tx |-> [Nonce |-> 0, To |-> to, Value |-> val, Gas |-> gasLimit,
                 GasPrice |-> gasPrice, Data |-> data],
         from |-> from, err |-> Nil]

\* the transaction eth_call and eth_estimateGas hand to the backend
createGethTxFromCallArgs(args) ==
    LET from == IF args.From # Nil THEN Deref(args.From) ELSE ZeroAddress
        to == IF args.To # Nil THEN Deref(args.To) ELSE ZeroAddress
        val == IF args.Value # Nil THEN Deref(args.Value) ELSE BigInt(0, 0)
        gasLimit == IF args.Gas # Nil THEN Deref(args.Gas) ELSE DefaultRPCGasLimit
        gasPrice == IF args.GasPrice # Nil THEN Deref(args.GasPrice)
                    ELSE DefaultGasPrice
        data == IF args.Data # Nil THEN Deref(args.Data) ELSE <<>>
    IN  [tx |-> [Nonce |-> 0, To |-> to, Value |-> val, Gas |-> gasLimit,
                 GasPrice |-> gasPrice, Data |-> data],
         from |-> from, err |-> Nil]

\* backend.Call and backend.EstimateGas: `exec` is what executing the
\* transaction yields (status code, return data, gas)
BackendExec(fn, tx, from, exec) == Called(fn, <<tx, from>>, <<exec, Nil>>)

\* mutant: the status code is not tested, the return data is always a result
Call_IgnoresStatus(args, blockNr, exec) ==
    LET t == createGethTxFromCallArgs(args)
        c == BackendExec("Call", t.tx, t.from, exec)
    IN  Response("Call", <<args, blockNr>>, c.val.retData, Nil, c.calls)

Call(args, blockNr, exec) ==
    LET t == createGethTxFromCallArgs(args)
    IN  IF t.err # Nil
        THEN Response("Call", <<args, blockNr>>, <<>>, t.err, <<>>)
        ELSE LET c == BackendExec("Call", t.tx, t.from, exec)
                 statusCode == c.val.statusCode
                 retData == c.val.retData
             IN  IF ~StatusIsFailure(statusCode)
                 THEN Response("Call", <<args, blockNr>>, retData, Nil, c.calls)
                 ELSE Response("Call", <<args, blockNr>>, <<>>,
                               toCallErr(statusCode, retData), c.calls)

EstimateGas(args, exec) ==
    LET t == createGethTxFromCallArgs(args)
    IN  IF t.err # Nil
        THEN Response("EstimateGas", <<args>>, 0, t.err, <<>>)
        ELSE LET c == BackendExec("EstimateGas", t.tx, t.from, exec)
                 statusCode == c.val.statusCode
                 retData == c.val.retData
                 gas == c.val.gas
             IN  IF ~StatusIsFailure(statusCode)
                 THEN Response("EstimateGas", <<args>>, gas, Nil, c.calls)
                 ELSE Response("EstimateGas", <<args>>, 0,
                               toCallErr(statusCode, retData), c.calls)

-----------------------------------------------------------------------------
(* The inputs of the requests *)

BlockNumbers == (-2)..(MaxHeight + 1)
Indexes == 0..MaxIdx
Bools == {TRUE, FALSE}

SendTxArgsSet == [From : Addresses, Nonce : {Nil, Ptr(0), Ptr(1)}]

\* raw transactions a client may submit: signed by either key, or garbage
RawTxs ==
    {EncodeTx(Signed([From |-> a, Nonce |-> n], 10000, a + 10), "").bytes :
        a \in 1..2, n \in 0..1} \cup {<<"garbage">>}

CallArgsSet ==
    [From : {Nil, Ptr(1)}, To : {Nil, Ptr(2)},
     Gas : {Nil, Ptr(0), Ptr(21000)}, GasPrice : {Nil, Ptr(BigInt(0, 0)), Ptr(BigInt(1, 5))},
     Value : {Nil, Ptr(BigInt(0, 7))}, Data : {Nil, Ptr(<<1>>)}]

Execs ==
    [statusCode : {0, 2, 3}, retData : {<<>>, <<8, 195>>}, gas : {21000, 53000}]

-----------------------------------------------------------------------------
(* Actions *)

\* A request is taken up, or the request being served goes on.
Serving(op) == last = Idle \/ (~last.done /\ last.op = op)

\* One step of a request.  resp is what the operation answers when every
\* backend call it has not made yet is made now: the step makes the first
\* of these calls, and the request is done when no other call follows.  The
\* calls the request has made stay made: it is past every return that comes
\* before them in the code.  The backend keeps what was submitted to it.
Serve(resp) ==
    LET n == Len(last.calls)
        now == IF Len(resp.calls) > n + 1
               THEN InFlight(resp.op, resp.args, SubSeq(resp.calls, 1, n + 1))
               ELSE resp
    IN  /\ last = Idle \/ last.args = resp.args
        /\ Len(resp.calls) >= n
        /\ SubSeq(resp.calls, 1, n) = last.calls
        /\ last' = now
        /\ pool' = PoolAfter(pool, SubSeq(now.calls, n + 1, Len(now.calls)))
    /\ UNCHANGED <<accounts, blocks, txs, nonces>>
    /\ UNCHANGED statsVars

DoGetCode ==
    /\ Serving("GetCode")
    /\ \E addr \in Addresses, fault \in {"", "GetCode"} :
           Serve(GetCode(addr, LatestBlockNumber, fault))

DoGetTransactionCount ==
    /\ Serving("GetTransactionCount")
    /\ \E addr \in Addresses, fault \in {"", "GetNonce"} :
           Serve(GetTransactionCount(addr, LatestBlockNumber, fault))

DoGetBlockByHash ==
    /\ Serving("GetBlockByHash")
    /\ \E hash \in BlockHashes, fullTx \in Bools,
          fault \in {"", "BlockByHash", "GetTxListByHeight"} :
           Serve(GetBlockByHash(hash, fullTx, fault))

DoGetBlockByNumber ==
    /\ Serving("GetBlockByNumber")
    /\ \E blockNum \in BlockNumbers, fullTx \in Bools,
          fault \in {"", "CurrentBlock", "BlockByNumber", "GetTxListByHeight"} :
           Serve(GetBlockByNumber(blockNum, fullTx, fault))

DoGetBlockTransactionCountByHash ==
    /\ Serving("GetBlockTransactionCountByHash")
    /\ \E hash \in BlockHashes, fault \in {"", "BlockByHash"} :
           Serve(GetBlockTransactionCountByHash(hash, fault))

DoGetBlockTransactionCountByNumber ==
    /\ Serving("GetBlockTransactionCountByNumber")
    /\ \E blockNum \in BlockNumbers, fault \in {"", "CurrentBlock", "BlockByNumber"} :
           Serve(GetBlockTransactionCountByNumber(blockNum, fault))

DoGetTransactionByBlockHashAndIndex ==
    /\ Serving("GetTransactionByBlockHashAndIndex")
    /\ \E hash \in BlockHashes, idx \in Indexes,
          fault \in {"", "BlockByHash", "GetTransaction"} :
           Serve(GetTransactionByBlockHashAndIndex(hash, idx, fault))

DoGetTransactionByBlockNumberAndIndex ==
    /\ Serving("GetTransactionByBlockNumberAndIndex")
    /\ \E blockNum \in BlockNumbers, idx \in Indexes,
          fault \in {"", "CurrentBlock", "BlockByNumber", "GetTransaction"} :
           Serve(GetTransactionByBlockNumberAndIndex(blockNum, idx, fault))

DoGetTransactionByHash ==
    /\ Serving("GetTransactionByHash")
    /\ \E hash \in TxHashes, fault \in {"", "GetTransaction"} :
           Serve(GetTransactionByHash(hash, fault))

DoGetTransactionReceipt ==
    /\ Serving("GetTransactionReceipt")
    /\ \E hash \in TxHashes, fault \in {"", "GetTransaction"} :
           Serve(GetTransactionReceipt(hash, fault))

DoSendRawTransaction ==
    /\ Serving("SendRawTransaction")
    /\ \E data \in RawTxs, fault \in {"", "SendRawTx"} :
           Serve(SendRawTransaction(data, fault))

DoSendTransaction ==
    /\ Serving("SendTransaction")
    /\ \E args \in SendTxArgsSet,
          fault \in {"", "GetNonce", "createGethTxFromSendTxArgs", "SignTx",
                     "EncodeTx", "SendRawTx"} :
           Serve(SendTransaction(args, fault))

DoCall ==
    /\ Serving("Call")
    /\ \E args \in CallArgsSet, exec \in Execs :
           Serve(Call(args, LatestBlockNumber, exec))

DoEstimateGas ==
    /\ Serving("EstimateGas")
    /\ \E args \in CallArgsSet, exec \in Execs :
           Serve(EstimateGas(args, exec))

\* The client takes the response.
Deliver ==
    /\ last.done
    /\ last' = Idle
    /\ UNCHANGED <<accounts, blocks, txs, pool, nonces>>
    /\ UNCHANGED statsVars

\* Another request being served submits a transaction to the backend while
\* this one is between two backend calls (SendRawTransaction, SendTransaction).
ConcurrentSendRawTx ==
    /\ last # Idle
    /\ ~last.done
    /\ \E data \in RawTxs :
          /\ DecodeTx(data).err = Nil
          /\ Acceptable(DecodeTx(data).tx)
          /\ pool' = Append(pool, DecodeTx(data).tx)
    /\ UNCHANGED <<accounts, blocks, txs, nonces, last>>
    /\ UNCHANGED statsVars

\* The backend commits the pool as the next block, between two requests or
\* between two backend calls of a request.
MineBlock ==
    /\ ~last.done
    /\ Len(blocks) < MaxHeight
    /\ LET h == Len(blocks) + 1
           mined == [i \in 1..Len(pool) |->
                        [Hash |-> pool[i].Hash, From |-> pool[i].From,
                         Nonce |-> pool[i].Nonce, BlockNumber |-> h,
                         Index |-> i - 1]]
       IN  /\ blocks' = Append(blocks,
                  [Number |-> h, Hash |-> BlockHash(h),
                   Transactions |-> [i \in 1..Len(pool) |-> pool[i].Hash]])
           /\ txs' = txs \o mined
           /\ nonces' = [a \in DOMAIN nonces |->
                  IF \E i \in 1..Len(pool) : pool[i].From = a
                  THEN nonces[a] + 1 ELSE nonces[a]]
    /\ pool' = <<>>
    /\ UNCHANGED <<accounts, last>>
    /\ UNCHANGED statsVars

-----------------------------------------------------------------------------
(* debugAPI: GetStats, one step per shared-memory access.  The accesses    *)
(* of lastUpdateTime are atomic; those of the fields of stats are plain.   *)

Callers == 1..NumCallers

ZeroStats == [NumGoroutine |-> 0, NumGC |-> 0, MemAllocMB |-> 0, MemSysMB |-> 0]

\* what runtime.NumGoroutine and runtime.ReadMemStats can report
RuntimeStates ==
    {[NumGoroutine |-> 8, NumGC |-> 3, Alloc |-> 5 * MiB + 4096, Sys |-> 70 * MiB + 17],
     [NumGoroutine |-> 9, NumGC |-> 4, Alloc |-> 6 * MiB - 1, Sys |-> 72 * MiB]}

NoLocals ==
    [now |-> 0, lastUpdateTime |-> 0, memStats |-> [NumGC |-> 0, Alloc |-> 0, Sys |-> 0],
     ret |-> ZeroStats]

\* the positions of updateStats at which it is storing the fields of stats
Writing == {"w_NumGoroutine", "w_NumGC", "w_MemAllocMB", "w_MemSysMB"}

Goto(t, where) == pc' = [pc EXCEPT ![t] = where]

\* now := time.Now().Unix()
GetStats_Now(t) ==
    /\ pc[t] = "GetStats"
    /\ loc' = [loc EXCEPT ![t].now = clock]
    /\ Goto(t, "load")
    /\ UNCHANGED <<lastUpdateTime, stats, clock, rt, runs>>
    /\ UNCHANGED ethVars

\* lastUpdateTime := atomic.LoadInt64(&api.lastUpdateTime), and the test
GetStats_Load(t) ==
    /\ pc[t] = "load"
    /\ loc' = [loc EXCEPT ![t].lastUpdateTime = lastUpdateTime]
    /\ IF loc[t].now > lastUpdateTime + StatusUpdateInterval
       THEN Goto(t, "cas")
       ELSE Goto(t, "r_NumGoroutine")
    /\ UNCHANGED <<lastUpdateTime, stats, clock, rt, runs>>
    /\ UNCHANGED ethVars

\* atomic.CompareAndSwapInt64(&api.lastUpdateTime, lastUpdateTime, now)
GetStats_CAS(t) ==
    /\ pc[t] = "cas"
    /\ IF lastUpdateTime = loc[t].lastUpdateTime
       THEN /\ lastUpdateTime' = loc[t].now
            /\ Goto(t, "updateStats")
       ELSE /\ UNCHANGED lastUpdateTime
            /\ Goto(t, "r_NumGoroutine")
    /\ UNCHANGED <<stats, clock, rt, loc, runs>>
    /\ UNCHANGED ethVars

\* runtime.ReadMemStats(&memStats)
updateStats_ReadMemStats(t) ==
    /\ pc[t] = "updateStats"
    /\ loc' = [loc EXCEPT ![t].memStats =
                  [NumGC |-> rt.NumGC, Alloc |-> rt.Alloc, Sys |-> rt.Sys]]
    /\ Goto(t, "w_NumGoroutine")
    /\ UNCHANGED <<lastUpdateTime, stats, clock, rt, runs>>
    /\ UNCHANGED ethVars

\* api.stats.NumGoroutine = runtime.NumGoroutine(); from here on the four
\* values this run stores are known
updateStats_NumGoroutine(t) ==
    /\ pc[t] = "w_NumGoroutine"
    /\ stats' = [stats EXCEPT !.NumGoroutine = rt.NumGoroutine]
    /\ runs' = runs \cup
          {[NumGoroutine |-> rt.NumGoroutine,
            NumGC |-> loc[t].memStats.NumGC,
            MemAllocMB |-> (loc[t].memStats.Alloc \div 1024) \div 1024,
            MemSysMB |-> (loc[t].memStats.Sys \div 1024) \div 1024]}
    /\ Goto(t, "w_NumGC")
    /\ UNCHANGED <<lastUpdateTime, clock, rt, loc>>
    /\ UNCHANGED ethVars

updateStats_NumGC(t) ==
    /\ pc[t] = "w_NumGC"
    /\ stats' = [stats EXCEPT !.NumGC = loc[t].memStats.NumGC]
    /\ Goto(t, "w_MemAllocMB")
    /\ UNCHANGED <<lastUpdateTime, clock, rt, loc, runs>>
    /\ UNCHANGED ethVars

updateStats_MemAllocMB(t) ==
    /\ pc[t] = "w_MemAllocMB"
    /\ stats' = [stats EXCEPT !.MemAllocMB = (loc[t].memStats.Alloc \div 1024) \div 1024]
    /\ Goto(t, "w_MemSysMB")
    /\ UNCHANGED <<lastUpdateTime, clock, rt, loc, runs>>
    /\ UNCHANGED ethVars

updateStats_MemSysMB(t) ==
    /\ pc[t] = "w_MemSysMB"
    /\ stats' = [stats EXCEPT !.MemSysMB = (loc[t].memStats.Sys \div 1024) \div 1024]
    /\ Goto(t, "r_NumGoroutine")
    /\ UNCHANGED <<lastUpdateTime, clock, rt, loc, runs>>
    /\ UNCHANGED ethVars

\* return api.stats: an unsynchronised copy of the struct, field by field
GetStats_Copy(t) ==
    /\ \/ /\ pc[t] = "r_NumGoroutine"
          /\ loc' = [loc EXCEPT ![t].ret.NumGoroutine = stats.NumGoroutine]
          /\ Goto(t, "r_NumGC")
       \/ /\ pc[t] = "r_NumGC"
          /\ loc' = [loc EXCEPT ![t].ret.NumGC = stats.NumGC]
          /\ Goto(t, "r_MemAllocMB")
       \/ /\ pc[t] = "r_MemAllocMB"
          /\ loc' = [loc EXCEPT ![t].ret.MemAllocMB = stats.MemAllocMB]
          /\ Goto(t, "r_MemSysMB")
       \/ /\ pc[t] = "r_MemSysMB"
          /\ loc' = [loc EXCEPT ![t].ret.MemSysMB = stats.MemSysMB]
          /\ Goto(t, "returned")
    /\ UNCHANGED <<lastUpdateTime, stats, clock, rt, runs>>
    /\ UNCHANGED ethVars

\* the caller has its Stats; it may call again
GetStats_Again(t) ==
    /\ pc[t] = "returned"
    /\ loc' = [loc EXCEPT ![t] = NoLocals]
    /\ Goto(t, "GetStats")
    /\ UNCHANGED <<lastUpdateTime, stats, clock, rt, runs>>
    /\ UNCHANGED ethVars

\* time passes
Tick ==
    /\ \E d \in {StatusUpdateInterval, StatusUpdateInterval + 1} :
          /\ clock + d <= StartTime + MaxElapsed
          /\ clock' = clock + d
    /\ UNCHANGED <<lastUpdateTime, stats, rt, pc, loc, runs>>
    /\ UNCHANGED ethVars

\* the process runs: goroutines come and go, the collector runs
RuntimeChange ==
    /\ \E r \in RuntimeStates : r # rt /\ rt' = r
    /\ UNCHANGED <<lastUpdateTime, stats, clock, pc, loc, runs>>
    /\ UNCHANGED ethVars

-----------------------------------------------------------------------------
(* Specifications *)

\* newEthAPI over a backend with an empty chain
InitEth(keyLists) ==
    /\ \E testKeys \in keyLists : accounts = loadTestAccounts(testKeys)
    /\ blocks = <<>>
    /\ txs = <<>>
    /\ pool = <<>>
    /\ nonces = [a \in 1..2 |-> 0]
    /\ last = Idle

\* newDebugAPI
InitStats ==
    /\ lastUpdateTime = 0
    /\ stats = ZeroStats
    /\ clock = StartTime
    /\ rt = [NumGoroutine |-> 8, NumGC |-> 3, Alloc |-> 5 * MiB + 4096, Sys |-> 70 * MiB + 17]
    /\ pc = [t \in Callers |-> "GetStats"]
    /\ loc = [t \in Callers |-> NoLocals]
    /\ runs = {}

Init == InitEth(TestKeyLists) /\ InitStats

\* the chain and the lookups, submissions and account queries of the facade
Next ==
    \/ DoGetCode
    \/ DoGetTransactionCount
    \/ DoGetBlockByHash
    \/ DoGetBlockByNumber
    \/ DoGetBlockTransactionCountByHash
    \/ DoGetBlockTransactionCountByNumber
    \/ DoGetTransactionByBlockHashAndIndex
    \/ DoGetTransactionByBlockNumberAndIndex
    \/ DoGetTransactionByHash
    \/ DoGetTransactionReceipt
    \/ DoSendRawTransaction
    \/ DoSendTransaction
    \/ Deliver
    \/ ConcurrentSendRawTx
    \/ MineBlock

Spec == Init /\ [][Next]_vars

\* read-only execution: eth_call and eth_estimateGas
NextCall == DoCall \/ DoEstimateGas \/ Deliver

SpecCall == Init /\ [][NextCall]_vars

\* concurrent callers of debug GetStats
NextStats ==
    \/ \E t \in Callers :
          \/ GetStats_Now(t)
          \/ GetStats_Load(t)
          \/ GetStats_CAS(t)
          \/ updateStats_ReadMemStats(t)
          \/ updateStats_NumGoroutine(t)
          \/ updateStats_NumGC(t)
          \/ updateStats_MemAllocMB(t)
          \/ updateStats_MemSysMB(t)
          \/ GetStats_Copy(t)
          \/ GetStats_Again(t)
    \/ Tick
    \/ RuntimeChange

\* no test keys are configured
InitNoKeys == InitEth({<<>>}) /\ InitStats

SpecStats == InitNoKeys /\ [][NextStats]_vars

-----------------------------------------------------------------------------
(* Properties.  They are about the requests that are done: last.done.    *)

Done(ops) == last.done /\ last.op \in ops

IsNotFound(err) == err = ErrBlockNotFound \/ err = ErrTxNotFound

ByIndexOps ==
    {"GetTransactionByBlockHashAndIndex", "GetTransactionByBlockNumberAndIndex"}

\* C1: eth_sendTransaction from a sender that is no key of the Signer
\* Registry answers the error "unknown account: <address>" and makes no
\* backend call: no GetNonce, no SendRawTx.
C1_UnknownSenderNoBackendCall ==
    (Done({"SendTransaction"}) /\ last.args[1].From \notin DOMAIN accounts)
        => /\ last.err = <<"unknown account: ", Hex(last.args[1].From)>>
           /\ last.calls = <<>>

\* C1 witness: an unknown sender with no nonce given (the case in which a
\* known sender's request looks the nonce up) was refused, on a chain that
\* has blocks and a registry that has keys.
C1_Witness ==
    /\ Done({"SendTransaction"})
    /\ last.args[1].From \notin DOMAIN accounts
    /\ last.args[1].From # ZeroAddress
    /\ last.args[1].Nonce = Nil
    /\ DOMAIN accounts # {}
    /\ blocks # <<>>

\* C2: for eth_getTransactionByHash and eth_getTransactionReceipt a backend
\* GetTransaction failure "transaction not found" yields null with no error,
\* and any other GetTransaction failure is returned as the error.
C2_TxLookupErrorMapping ==
    (/\ Done({"GetTransactionByHash", "GetTransactionReceipt"})
     /\ last.calls[1].err # Nil)
        => IF last.calls[1].err = ErrTxNotFound
           THEN last.result = Nil /\ last.err = Nil
           ELSE last.err = last.calls[1].err

\* C3: no backend error is swallowed: when a backend call of an operation
\* returns an error, it is the operation's last backend call and the
\* operation ends with an error, or with the null result of a lookup that
\* was not found.
C3_NoBackendErrorSwallowed ==
    \A i \in 1..Len(last.calls) :
        (last.done /\ last.calls[i].err # Nil)
            => /\ i = Len(last.calls)
               /\ \/ last.err # Nil
                  \/ IsNotFound(last.calls[i].err) /\ last.result = Nil

\* C4: eth_getBlockByNumber resolves every block number n <= 0 to the
\* backend's current head (CurrentBlock, never BlockByNumber) and every
\* n > 0 to exactly block n (BlockByNumber(n), never CurrentBlock); the
\* block it answers is the one the backend reported.
C4_BlockResolution ==
    Done({"GetBlockByNumber"})
        => LET n == last.args[1]
               c == last.calls
               ok == \A i \in 1..Len(c) : c[i].err = Nil
           IN  /\ Len(c) >= 1
               /\ IF n <= 0
                  THEN /\ c[1].fn = "CurrentBlock"
                       /\ \A i \in 1..Len(c) : c[i].fn # "BlockByNumber"
                  ELSE /\ c[1].fn = "BlockByNumber"
                       /\ c[1].arg = <<n>>
                       /\ \A i \in 1..Len(c) : c[i].fn # "CurrentBlock"
                       /\ last.result # Nil => Deref(last.result).number = n
               /\ last.result # Nil
                     => /\ c[1].err = Nil
                        /\ Deref(last.result).hash = Deref(c[1].ret).Hash
                        /\ Deref(last.result).number = Deref(c[1].ret).Number
               /\ ok <=> (last.result # Nil /\ last.err = Nil)

\* C4 witness: block number 0 was asked for with its transactions on a chain
\* of two or more blocks, and the head the backend reported was answered.
C4_Witness ==
    /\ Done({"GetBlockByNumber"})
    /\ last.args[1] = 0
    /\ last.args[2] = TRUE
    /\ Len(blocks) >= 2
    /\ last.result # Nil
    /\ Deref(last.result).number >= 1

\* C5: for a block hash the backend reports as not found, eth_getBlockByHash
\* answers null with no error, with fullTx or without, and does not fetch
\* the transaction list.
C5_UnknownBlockHashIsNull ==
    (Done({"GetBlockByHash"}) /\ last.calls[1].err = ErrBlockNotFound)
        => /\ last.result = Nil
           /\ last.err = Nil
           /\ Len(last.calls) = 1
           /\ last.calls[1].fn = "BlockByHash"

\* C5 witness: a hash of no block was asked for with fullTx, on a chain
\* that has blocks.
C5_Witness ==
    /\ Done({"GetBlockByHash"})
    /\ last.args[2] = TRUE
    /\ blocks # <<>>
    /\ \A h \in 1..Len(blocks) : blocks[h].Hash # last.args[1]
    /\ last.calls[1].err = ErrBlockNotFound
    /\ last.result = Nil

\* C6: for an existing block, the by-index lookups answer null with no
\* error and no GetTransaction call when the index is >= the number of
\* transactions of the block, and otherwise fetch exactly the transaction
\* whose hash is at that position of the block.
C6_IndexOutOfBoundsIsNull ==
    (Done(ByIndexOps) /\ last.calls[1].err = Nil)
        => LET block == Deref(last.calls[1].ret)
               idx == last.args[2]
           IN  IF idx >= Len(block.Transactions)
               THEN /\ last.result = Nil
                    /\ last.err = Nil
                    /\ Len(last.calls) = 1
               ELSE /\ Len(last.calls) = 2
                    /\ last.calls[2].fn = "GetTransaction"
                    /\ last.calls[2].arg = <<block.Transactions[idx + 1]>>
                    /\ last.result # Nil
                          => /\ Deref(last.result).hash = block.Transactions[idx + 1]
                             /\ Deref(last.result).transactionIndex = idx

\* C6 witness: the index asked for is the number of transactions of a block
\* that has transactions.
C6_Witness ==
    /\ Done(ByIndexOps)
    /\ last.calls[1].err = Nil
    /\ Len(Deref(last.calls[1].ret).Transactions) >= 1
    /\ last.args[2] = Len(Deref(last.calls[1].ret).Transactions)
    /\ last.result = Nil

\* C7: eth_call and eth_estimateGas answer an error exactly when the
\* backend's status code is a failure: otherwise eth_call answers the return
\* data and eth_estimateGas the reported gas; on a failure the error is
\* built from the status code and the return data, with no data and zero gas.
C7_StatusDecidesError ==
    Done({"Call", "EstimateGas"})
        => LET e == last.calls[1].ret
           IN  /\ (last.err # Nil) <=> StatusIsFailure(e.statusCode)
               /\ ~StatusIsFailure(e.statusCode)
                     => last.result = IF last.op = "Call" THEN e.retData ELSE e.gas
               /\ StatusIsFailure(e.statusCode)
                     => /\ last.err = toCallErr(e.statusCode, e.retData)
                        /\ last.result = IF last.op = "Call" THEN <<>> ELSE 0

\* C7 witness: eth_call of a call that failed with return data.
C7_Witness ==
    /\ Done({"Call"})
    /\ last.calls[1].ret.statusCode # 0
    /\ last.calls[1].ret.retData # <<>>
    /\ last.err # Nil

\* C8: the transaction eth_call and eth_estimateGas pass to the backend has
\* gas limit 10000000, gas price 20000000000 and value 0 where the CallArgs
\* leave them absent, every present field unchanged, and the zero address
\* for an absent sender or recipient.
C8_CallArgsDefaults ==
    Done({"Call", "EstimateGas"})
        => LET a == last.args[1]
               tx == last.calls[1].arg[1]
               from == last.calls[1].arg[2]
           IN  /\ tx.Gas = IF a.Gas = Nil THEN 10000000 ELSE a.Gas[1]
               /\ tx.GasPrice = IF a.GasPrice = Nil
                                THEN [giga |-> 20, unit |-> 0] ELSE a.GasPrice[1]
               /\ tx.Value = IF a.Value = Nil
                             THEN [giga |-> 0, unit |-> 0] ELSE a.Value[1]
               /\ tx.To = IF a.To = Nil THEN 0 ELSE a.To[1]
               /\ from = IF a.From = Nil THEN 0 ELSE a.From[1]
               /\ tx.Data = IF a.Data = Nil THEN <<>> ELSE a.Data[1]

\* C8 witness: eth_estimateGas with gas, gas price, value and sender absent.
C8_Witness ==
    /\ Done({"EstimateGas"})
    /\ last.args[1].Gas = Nil
    /\ last.args[1].GasPrice = Nil
    /\ last.args[1].Value = Nil
    /\ last.args[1].From = Nil
    /\ Len(last.calls) = 1

\* C9: the by-index lookups answer null with no error when the backend
\* reports that the block asked for is not found.
C9_MissingBlockIsNull ==
    (Done(ByIndexOps) /\ last.calls[1].err = ErrBlockNotFound)
        => last.result = Nil /\ last.err = Nil

\* C10: every Stats that GetStats returns is the zero Stats or the complete
\* result of one updateStats run, and no two updateStats runs write the
\* cached Stats at the same time.
C10_ConsistentSnapshot ==
    /\ \A t \in Callers :
          pc[t] = "returned" => loc[t].ret \in {ZeroStats} \cup runs
    /\ \A t, u \in Callers :
          (pc[t] \in Writing /\ pc[u] \in Writing) => t = u

====
